---- MODULE Spec2Model ----
(***************************************************************************)
(* Offline audio pipeline of src/utils/audio.ts: the WAV encoder           *)
(* (audioBufferToWav), the overlap-add time stretch (timeStretch) and the  *)
(* mixer (renderEnhancedAudio), with the parts of the Web Audio API they   *)
(* call (AudioContext, AudioBuffer, OfflineAudioContext, source and gain   *)
(* nodes) modelled after the Web Audio API recommendation.                 *)
(*                                                                         *)
(* Numbers.  A sample is a rational k / SampleDen, kept as its numerator   *)
(* k.  The encoder's products s * 0x7FFF and s * 0x8000 are exact in a     *)
(* double for every float32 s (24 + 15 bits), so the encoder computes the  *)
(* real-number function modelled here.  A speed is num / SpeedDen with     *)
(* SpeedDen = 128, exact in a double.  A gain is g / GainDen (the slider's *)
(* steps of 0.05).                                                         *)
(***************************************************************************)
EXTENDS Integers, Sequences, FiniteSets

(***************************************************************************)
(* Bounds of the model.                                                    *)
(***************************************************************************)
\* samples (frames x channels) of a buffer handed to audioBufferToWav in
\* SpecEncode
EncMaxSamples == 4
\* frames of a decoded speech whose samples are all chosen freely
MaxSpeechFrames == 3
\* frames of a decoded music, its samples all chosen freely
MaxMusicFrames == 2
\* a long decoded speech has k * windowSize or k * windowSize + 1 frames,
\* k in 1..MaxWindows
MaxWindows == 3
\* notes of a score handed to synthesizeMusic in SpecSynth
MaxNotes == 2
\* characters of a base64 string handed to base64ToUint8Array in SpecPcm
MaxBase64Chars == 4
\* object URLs created in a behaviour of SpecApp
MaxUrls == 5

(***************************************************************************)
(* Number representation.                                                  *)
(***************************************************************************)
\* samples are multiples of 1 / (3 * 2^13): a third of a step of the 16-bit
\* scale 0x8000 is resolved, so products with a fraction occur on both signs
SampleDen == 3 * 8192

\* Math.trunc of the rational a / b (b > 0): what DataView.setInt16 and the
\* WebIDL integer conversions do to a non-integer before wrapping it
Trunc(a, b) == IF a >= 0 THEN a \div b
               ELSE IF a % b = 0 THEN a \div b ELSE (a \div b) + 1

(***************************************************************************)
(* DataView: a view is a sequence of bytes, byte offset o is element o+1.  *)
(***************************************************************************)
\* String.prototype.charCodeAt for the characters of the four chunk tags
charCodeAt(ch) ==
  CASE ch = "R" -> 82  [] ch = "I" -> 73  [] ch = "F" -> 70
    [] ch = "W" -> 87  [] ch = "A" -> 65  [] ch = "V" -> 86  [] ch = "E" -> 69
    [] ch = "f" -> 102 [] ch = "m" -> 109 [] ch = "t" -> 116 [] ch = " " -> 32
    [] ch = "d" -> 100 [] ch = "a" -> 97

\* new DataView(new ArrayBuffer(n)): n zero bytes
NewView(n) == [i \in 1..n |-> 0]

setUint8(view, offset, value) ==
  [view EXCEPT ![offset + 1] = value % 256]

\* setUint16 with the littleEndian argument left out: DataView's default is
\* big-endian
setUint16BigEndian(view, offset, value) ==
  LET v == value % 65536
  IN  [view EXCEPT ![offset + 1] = v \div 256, ![offset + 2] = v % 256]

\* little-endian (the calls all pass littleEndian = true)
setUint16(view, offset, value) ==
  LET v == value % 65536
  IN  [view EXCEPT ![offset + 1] = v % 256, ![offset + 2] = v \div 256]

\* setUint32 with the littleEndian argument left out
setUint32BigEndian(view, offset, value) ==
  LET lo == value % 65536
      hi == (value \div 65536) % 65536
  IN  [view EXCEPT ![offset + 1] = hi \div 256, ![offset + 2] = hi % 256,
                   ![offset + 3] = lo \div 256, ![offset + 4] = lo % 256]

setUint32(view, offset, value) ==
  LET lo == value % 65536
      hi == (value \div 65536) % 65536
  IN  [view EXCEPT ![offset + 1] = lo % 256, ![offset + 2] = lo \div 256,
                   ![offset + 3] = hi % 256, ![offset + 4] = hi \div 256]

\* setInt16 of an integer: ToInt16 wraps modulo 2^16, two's complement bytes
setInt16(view, offset, value) == setUint16(view, offset, value % 65536)

RECURSIVE writeStringFrom(_, _, _, _)
writeStringFrom(view, offset, chars, i) ==
  IF i > Len(chars) THEN view
  ELSE writeStringFrom(setUint8(view, offset + (i - 1), charCodeAt(chars[i])),
                       offset, chars, i + 1)

\* writeString(view, offset, string), the string given as its characters
writeString(view, offset, chars) == writeStringFrom(view, offset, chars, 1)

\* reading back, as a WAV reader does
getUint16(view, offset) == view[offset + 1] + 256 * view[offset + 2]
getUint32(view, offset) ==
  getUint16(view, offset) + 65536 * getUint16(view, offset + 2)
getInt16(view, offset) ==
  LET u == getUint16(view, offset) IN IF u >= 32768 THEN u - 65536 ELSE u

(***************************************************************************)
(* audioBufferToWav.  A buffer is a record                                 *)
(*   [numberOfChannels, length, sampleRate, data]                          *)
(* where data[c][i+1] is the numerator of getChannelData(c-1)[i].          *)
(***************************************************************************)
\* the clamp left out: the sample goes to the scaling as it is
ClampSampleMissing(sample) == sample

\* Math.max(-1, Math.min(1, sample))
ClampSample(sample) ==
  LET m == IF sample < SampleDen THEN sample ELSE SampleDen
  IN  IF m > -SampleDen THEN m ELSE -SampleDen

\* the 16-bit value view.setInt16(offset, s < 0 ? s * 0x8000 : s * 0x7FFF, true)
\* stores: the product truncated toward zero, then wrapped by ToInt16
ScaledSample(sample) ==
  LET s == ClampSample(sample)
  IN  IF s < 0 THEN Trunc(s * 32768, SampleDen)
      ELSE Trunc(s * 32767, SampleDen)

\* the header audioBufferToWav writes into view
WavHeader(view, numChannels, sampleRate, length) ==
  LET format   == 1
      bitDepth == 16
      v1  == writeString(view, 0, <<"R", "I", "F", "F">>)
      v2  == setUint32(v1, 4, 36 + length * numChannels * 2)
      v3  == writeString(v2, 8, <<"W", "A", "V", "E">>)
      v4  == writeString(v3, 12, <<"f", "m", "t", " ">>)
      v5  == setUint32(v4, 16, 16)
      v6  == setUint16(v5, 20, format)
      v7  == setUint16(v6, 22, numChannels)
      v8  == setUint32(v7, 24, sampleRate)
      v9  == setUint32(v8, 28, sampleRate * numChannels * 2)
      v10 == setUint16(v9, 32, numChannels * 2)
      v11 == setUint16(v10, 34, bitDepth)
      v12 == writeString(v11, 36, <<"d", "a", "t", "a">>)
  IN  setUint32(v12, 40, length * numChannels * 2)

\* the two nested loops: frame i, then channel, offset advancing by 2
RECURSIVE WriteSamples(_, _, _, _, _)
WriteSamples(view, buffer, i, channel, offset) ==
  IF i >= buffer.length THEN view
  ELSE IF channel >= buffer.numberOfChannels
       THEN WriteSamples(view, buffer, i + 1, 0, offset)
       ELSE WriteSamples(
              setInt16(view, offset, ScaledSample(buffer.data[channel + 1][i + 1])),
              buffer, i, channel + 1, offset + 2)

\* audioBufferToWav(buffer): the bytes of the Blob
audioBufferToWav(buffer) ==
  LET numChannels  == buffer.numberOfChannels
      resultLength == buffer.length * numChannels * 2 + 44
      view == WavHeader(NewView(resultLength), numChannels,
                        buffer.sampleRate, buffer.length)
  IN  WriteSamples(view, buffer, 0, 0, 44)

(***************************************************************************)
(* pcmToWav: the 44-byte header of a mono 24000 Hz 16-bit container in     *)
(* front of the payload, whatever its length.                              *)
(***************************************************************************)
\* const sampleRate = 24000 of pcmToWav
PcmRate == 24000

\* the header pcmToWav writes into view
PcmWavHeader(view, dataSize) ==
  LET numChannels   == 1
      sampleRate    == PcmRate
      bitsPerSample == 16
      byteRate      == sampleRate * numChannels * (bitsPerSample \div 8)
      blockAlign    == numChannels * (bitsPerSample \div 8)
      v1  == writeString(view, 0, <<"R", "I", "F", "F">>)
      v2  == setUint32(v1, 4, 36 + dataSize)
      v3  == writeString(v2, 8, <<"W", "A", "V", "E">>)
      v4  == writeString(v3, 12, <<"f", "m", "t", " ">>)
      v5  == setUint32(v4, 16, 16)
      v6  == setUint16(v5, 20, 1)
      v7  == setUint16(v6, 22, numChannels)
      v8  == setUint32(v7, 24, sampleRate)
      v9  == setUint32(v8, 28, byteRate)
      v10 == setUint16(v9, 32, blockAlign)
      v11 == setUint16(v10, 34, bitsPerSample)
      v12 == writeString(v11, 36, <<"d", "a", "t", "a">>)
  IN  setUint32(v12, 40, dataSize)

\* pcmToWav(pcmData): the bytes of the Blob, the payload copied behind the
\* header by pcmBytes.set(pcmData)
pcmToWav(pcmData) ==
  LET dataSize == Len(pcmData)
      view     == PcmWavHeader(NewView(44 + dataSize), dataSize)
  IN  [i \in 1..(44 + dataSize) |-> IF i <= 44 THEN view[i] ELSE pcmData[i - 44]]

(***************************************************************************)
(* base64ToUint8Array.  A base64 string is the sequence of its characters; *)
(* atob is the forgiving-base64 decode of the HTML standard.               *)
(***************************************************************************)
\* the value of a character of the base64 alphabet
Base64Value(ch) ==
  CASE ch = "A" -> 0 [] ch = "Q" -> 16 [] ch = "g" -> 32 [] ch = "/" -> 63

\* a string whose length is a multiple of 4 loses one or two trailing '='
StripPadding(chars) ==
  LET n == Len(chars)
  IN  IF n > 0 /\ n % 4 = 0 /\ chars[n] = "="
      THEN IF chars[n - 1] = "=" THEN SubSeq(chars, 1, n - 2)
           ELSE SubSeq(chars, 1, n - 1)
      ELSE chars

\* atob throws InvalidCharacterError for a length of 4k + 1 and for a
\* character outside the alphabet, a remaining '=' included
AtobThrows(chars) ==
  LET data == StripPadding(chars)
  IN  \/ Len(data) % 4 = 1
      \/ \E i \in DOMAIN data : data[i] = "="

\* the bytes of the characters from i on: four characters give three bytes,
\* three at the end two, two at the end one (the spare bits are dropped)
RECURSIVE DecodeFrom(_, _)
DecodeFrom(data, i) ==
  LET left == Len(data) - i + 1
      v(k) == Base64Value(data[i + k])
  IN  IF left >= 4
      THEN LET n == ((v(0) * 64 + v(1)) * 64 + v(2)) * 64 + v(3)
           IN  <<n \div 65536, (n \div 256) % 256, n % 256>>
                 \o DecodeFrom(data, i + 4)
      ELSE IF left = 3
      THEN LET n == ((v(0) * 64 + v(1)) * 64 + v(2)) \div 4
           IN  <<n \div 256, n % 256>>
      ELSE IF left = 2
      THEN <<(v(0) * 64 + v(1)) \div 16>>
      ELSE <<>>

\* atob(base64): the binary string, as the code units of its characters
atob(chars) == DecodeFrom(StripPadding(chars), 1)

\* base64ToUint8Array(base64): bytes[i] = binaryString.charCodeAt(i)
base64ToUint8Array(base64) ==
  LET binaryString == atob(base64)
      len          == Len(binaryString)
  IN  [i \in 1..len |-> binaryString[i] % 256]


(***************************************************************************)
(* The raw-PCM decode rule of the specification (no code of the            *)
(* repository implements it): the data section is read as interleaved      *)
(* 16-bit little-endian samples and a stored value v stands for v / 32768. *)
(* A decoded sample is kept as its numerator over DecodeDen = 3 * 32768,   *)
(* the common denominator of v / 32768 and k / SampleDen.                  *)
(***************************************************************************)
DecodeDen == 4 * SampleDen

decodeRawPcm(bytes) ==
  LET numChannels == getUint16(bytes, 22)
      frames      == (Len(bytes) - 44) \div (2 * numChannels)
  IN  [numberOfChannels |-> numChannels,
       length           |-> frames,
       sampleRate       |-> getUint32(bytes, 24),
       data |-> [c \in 1..numChannels |->
                  [i \in 1..frames |->
                    getInt16(bytes, 44 + 2 * ((i - 1) * numChannels + (c - 1)))
                      * (DecodeDen \div 32768)]]]

(***************************************************************************)
(* Buffers of the pipeline.  An AudioBuffer is a record                    *)
(*   [id, numberOfChannels, length, sampleRate, data, ola, grains]         *)
(* id is the object's identity.  A decoded buffer has ola = FALSE and      *)
(* frame i of channel c is data[c+1][(i mod Len(data[c+1])) + 1]: data     *)
(* holds one period of the signal, the whole signal when its length is     *)
(* the buffer's.  A buffer created and filled by timeStretch has           *)
(* ola = TRUE: it starts silent and holds the grains                       *)
(* <<outputOffset, inputOffset>> added into it, taken from data, the       *)
(* input's samples.                                                        *)
(***************************************************************************)
\* const sampleRate = 44100 of renderEnhancedAudio
OutRate == 44100

\* const windowSize = 4096 of timeStretch
windowSize == 4096

\* const overlap = windowSize / 2
overlap == windowSize \div 2

\* a speed is speed / SpeedDen
SpeedDen == 2 ^ 7

\* a gain is gain / GainDen: the volume slider moves in steps of 0.05
GainDen == 100 \div 5

NoBuffer == [id |-> "none", numberOfChannels |-> 0, length |-> 0,
             sampleRate |-> 0, data |-> <<>>, ola |-> FALSE, grains |-> <<>>]

\* a sample value: num / SampleDen plus the sum, over the terms <<a, b>>, of
\* (frame a of the stretched input) * hanning[b]
ZeroSample == [num |-> 0, terms |-> {}]

\* getChannelData(channel)[i] of a buffer
SampleAt(buffer, channel, i) ==
  IF ~buffer.ola
  THEN LET period == buffer.data[channel + 1]
       IN  [num |-> period[(i % Len(period)) + 1], terms |-> {}]
  ELSE [num |-> 0,
        terms |-> { <<buffer.grains[g][2] + (i - buffer.grains[g][1]),
                      i - buffer.grains[g][1]>> :
                    g \in { h \in DOMAIN buffer.grains :
                              /\ buffer.grains[h][1] <= i
                              /\ i < buffer.grains[h][1] + windowSize } }]

(***************************************************************************)
(* timeStretch                                                             *)
(***************************************************************************)
\* the fast path taken out: every speed goes through the overlap-add
IsIdentitySpeedNever(speed) == FALSE

\* Math.abs(speed - 1.0) < 0.01
IsIdentitySpeed(speed) ==
  (IF speed < SpeedDen THEN SpeedDen - speed ELSE speed - SpeedDen) * 100 < SpeedDen

\* Math.floor(inputLen / speed).  For speed 0 the quotient is Infinity or NaN,
\* which the unsigned long of createBuffer takes as 0; for a negative speed
\* it is negative
StretchedLength(inputLen, speed) ==
  IF speed > 0 THEN (inputLen * SpeedDen) \div speed
  ELSE IF speed = 0 \/ inputLen = 0 THEN 0
  ELSE -((inputLen * SpeedDen + (-speed) - 1) \div (-speed))

\* the loop without the boundary check of line 192
RECURSIVE GrainLoopUnchecked(_, _, _, _, _)
GrainLoopUnchecked(outputOffset, speed, inputLen, outputLen, grains) ==
  IF ~(outputOffset < outputLen - windowSize) THEN grains
  ELSE GrainLoopUnchecked(outputOffset + overlap, speed, inputLen, outputLen,
                          Append(grains, <<outputOffset,
                                           (outputOffset * speed) \div SpeedDen>>))

\* the loop over outputOffset for one channel: the grains it adds, in order
RECURSIVE GrainLoop(_, _, _, _, _)
GrainLoop(outputOffset, speed, inputLen, outputLen, grains) ==
  IF ~(outputOffset < outputLen - windowSize) THEN grains
  ELSE LET inputOffset == (outputOffset * speed) \div SpeedDen
       IN  IF inputOffset + windowSize >= inputLen THEN grains
           ELSE GrainLoop(outputOffset + overlap, speed, inputLen, outputLen,
                          Append(grains, <<outputOffset, inputOffset>>))

\* context.createBuffer(numChannels, length, sampleRate) throws
\* NotSupportedError unless length is at least 1; a negative length stands
\* for the 2^32 - k frames it wraps to, more than a buffer can be given
CreateBufferThrows(numChannels, length, sampleRate) ==
  numChannels < 1 \/ length < 1 \/ sampleRate < 1

\* timeStretch(buffer, speed, context): [threw, buffer, created], created the
\* number of buffers it made the context create
timeStretch(buffer, speed) ==
  IF IsIdentitySpeed(speed)
  THEN [threw |-> FALSE, buffer |-> buffer, created |-> 0]
  ELSE LET numChannels == buffer.numberOfChannels
           inputLen    == buffer.length
           outputLen   == StretchedLength(inputLen, speed)
           sampleRate  == buffer.sampleRate
       IN  IF CreateBufferThrows(numChannels, outputLen, sampleRate)
           THEN [threw |-> TRUE, buffer |-> NoBuffer, created |-> 0]
           ELSE [threw |-> FALSE,
                 buffer |-> [id |-> "stretched",
                             numberOfChannels |-> numChannels,
                             length |-> outputLen,
                             sampleRate |-> sampleRate,
                             data |-> buffer.data,
                             ola |-> TRUE,
                             grains |-> GrainLoop(0, speed, inputLen, outputLen, <<>>)],
                 created |-> 1]

(***************************************************************************)
(* The offline graph of renderEnhancedAudio and its rendering.             *)
(***************************************************************************)
RECURSIVE GCD(_, _)
GCD(a, b) == IF b = 0 THEN a ELSE GCD(b, a % b)

\* the pairs <<frames, sampleRate>> of the model's buffers for which the
\* double (frames / sampleRate) * 44100 is below the integer it stands for
\* (IEEE 754: 15 / 44100 * 44100 = 14.999999999999998)
DoubleRoundsBelow == {<<15, 44100>>, <<30, 44100>>}

\* the stretched speech's own frame count taken for the length, its sample
\* rate ignored
OfflineLengthInFrames(buffer) == buffer.length

\* the length the OfflineAudioContext constructor gets from
\* newDuration * sampleRate, newDuration = buffer.length / buffer.sampleRate:
\* the double truncated to an unsigned long
OfflineLength(buffer) ==
  LET g     == GCD(OutRate, buffer.sampleRate)
      exact == (buffer.length * (OutRate \div g)) \div (buffer.sampleRate \div g)
  IN  IF <<buffer.length, buffer.sampleRate>> \in DoubleRoundsBelow
      THEN exact - 1 ELSE exact

NoSource == [buffer |-> NoBuffer, loop |-> FALSE, playbackRate |-> 0]

\* speechSource.playbackRate.value = 1.0
SpeechPlaybackRate(speed) == SpeedDen

\* the music synchronised with the speech, as before the time stretch was
\* introduced: musicSource.playbackRate.value = speed
MusicPlaybackRateSynced(speed) == speed

\* musicSource.playbackRate.value = 1.0
MusicPlaybackRate(speed) == SpeedDen

\* musicSource.loop left at its default
MusicLoopOff == FALSE

\* musicSource.loop = true
MusicLoop == TRUE

\* musicGain.gain left at its default 1.0
MusicGainDefault(musicVolume) == GainDen

\* musicGain.gain.value = musicVolume
MusicGain(musicVolume) == musicVolume

\* what a node puts out when nothing plays
Silence == [index |-> -1, frac |-> 0, sample |-> ZeroSample]

\* An AudioBufferSourceNode started at 0: per output frame the playhead moves
\* by buffer.sampleRate * playbackRate / context.sampleRate frames of the
\* buffer; with loop it wraps at the buffer's end, without it the node is
\* silent past the end.  The output of frame n is the buffer's signal at
\* playhead index + frac (frac in steps of the reduced denominator): the sample
\* itself when frac = 0, an interpolation the implementation chooses otherwise.
\* A mono buffer is up-mixed to both channels.
SourceOut(source, channel, n) ==
  LET buffer == source.buffer
      num    == buffer.sampleRate * source.playbackRate
      den    == OutRate * SpeedDen
      g      == GCD(num, den)
      p      == n * (num \div g)
      index  == p \div (den \div g)
      frac   == p % (den \div g)
      ch     == IF buffer.numberOfChannels = 1 THEN 0 ELSE channel
  IN  IF source.loop
      THEN [index |-> index % buffer.length, frac |-> frac,
            sample |-> SampleAt(buffer, ch, index % buffer.length)]
      ELSE IF index >= buffer.length THEN Silence
           ELSE [index |-> index, frac |-> frac,
                 sample |-> SampleAt(buffer, ch, index)]

\* a GainNode: its input times gain / GainDen; times 0 it is silence
GainOut(gain, in) ==
  IF gain = 0 \/ in = Silence THEN Silence ELSE [gain |-> gain, in |-> in]

\* frame n of channel `channel` of the rendered buffer: the destination sums
\* the speech source and, when there is one, the music through its gain
RenderedSample(graph, channel, n) ==
  [speech |-> SourceOut(graph.speechSource, channel, n),
   music  |-> IF graph.musicSource = NoSource THEN Silence
              ELSE GainOut(graph.musicGain, SourceOut(graph.musicSource, channel, n))]

NoGraph == [numberOfChannels |-> 0, length |-> 0, sampleRate |-> 0,
            speechSource |-> NoSource, musicSource |-> NoSource, musicGain |-> 0]

\* lines 232-258: the OfflineAudioContext and the nodes connected to it
BuildGraph(stretchedSpeechBuffer, musicBuffer, speed, musicVolume) ==
  [numberOfChannels |-> 2,
   length           |-> OfflineLength(stretchedSpeechBuffer),
   sampleRate       |-> OutRate,
   speechSource     |-> [buffer |-> stretchedSpeechBuffer, loop |-> FALSE,
                         playbackRate |-> SpeechPlaybackRate(speed)],
   musicSource      |-> IF musicBuffer = NoBuffer THEN NoSource
                        ELSE [buffer |-> musicBuffer, loop |-> MusicLoop,
                              playbackRate |-> MusicPlaybackRate(speed)],
   musicGain        |-> IF musicBuffer = NoBuffer THEN 0
                        ELSE MusicGain(musicVolume)]

\* new OfflineAudioContext(2, length, 44100) throws NotSupportedError when
\* length is 0
OfflineContextThrows(length) == length < 1

(***************************************************************************)
(* synthesizeMusic.  Times (startTime, duration, totalDuration) are        *)
(* multiples of a quarter second, kept as numerators over TimeDen; a gain  *)
(* value is a numerator over EnvDen.  A score is [totalDuration, notes],   *)
(* a note [freq, startTime, duration, type].                               *)
(***************************************************************************)
TimeDen == 2 * 2

EnvDen == 5 * 120

\* const sampleRate = 44100 of synthesizeMusic
SynthRate == 44100

\* const attack = 0.5
attack == TimeDen \div 2

\* const release = 1.0
release == TimeDen

\* the level 0.2 of the two middle ramps
AmbientLevel == EnvDen \div 5

Max(a, b) == IF a > b THEN a ELSE b

\* the floor of 10 seconds left out
SynthDurationNoFloor(score) == score.totalDuration

\* const duration = Math.max(score.totalDuration, 10)
SynthDuration(score) == Max(score.totalDuration, 10 * TimeDen)

\* the length argument sampleRate * duration of the OfflineAudioContext
\* constructor, truncated to an unsigned long
SynthLength(score) == (SynthRate * SynthDuration(score)) \div TimeDen

\* AudioParam automation: a timeline is the sequence of the scheduled events
\* [kind, value, time], kept in time order; a new event goes after the events
\* at or before its time
InsertEvent(timeline, event) ==
  LET k == Cardinality({ i \in DOMAIN timeline : timeline[i].time <= event.time })
  IN  SubSeq(timeline, 1, k) \o <<event>> \o SubSeq(timeline, k + 1, Len(timeline))

\* setValueAtTime and linearRampToValueAtTime throw RangeError for a negative
\* time, AudioScheduledSourceNode.start and stop for a negative when
NegativeTimeThrows(time) == time < 0

\* the calls on gain.gain without the setValueAtTime(0, note.startTime)
EnvelopeCallsWithoutStart(note) ==
  << [kind |-> "ramp", value |-> AmbientLevel, time |-> note.startTime + attack],
     [kind |-> "ramp", value |-> AmbientLevel,
      time |-> note.startTime + note.duration - release],
     [kind |-> "ramp", value |-> 0, time |-> note.startTime + note.duration] >>

\* lines 122-125: the four calls on gain.gain, in the order they are made
EnvelopeCalls(note) ==
  << [kind |-> "set", value |-> 0, time |-> note.startTime],
     [kind |-> "ramp", value |-> AmbientLevel, time |-> note.startTime + attack],
     [kind |-> "ramp", value |-> AmbientLevel,
      time |-> note.startTime + note.duration - release],
     [kind |-> "ramp", value |-> 0, time |-> note.startTime + note.duration] >>

\* the calls made one after the other: [threw, timeline]; a call that throws
\* ends the sequence
RECURSIVE ApplyCalls(_, _, _)
ApplyCalls(timeline, calls, i) ==
  IF i > Len(calls) THEN [threw |-> FALSE, timeline |-> timeline]
  ELSE IF NegativeTimeThrows(calls[i].time)
       THEN [threw |-> TRUE, timeline |-> timeline]
       ELSE ApplyCalls(InsertEvent(timeline, calls[i]), calls, i + 1)

\* the value of an AudioParam of default value 1 at time t: the value of the
\* last event at or before t, or on the way to the next event when that is a
\* linear ramp; a ramp with no event before it starts from the default value
\* at time 0, the context's currentTime when it was scheduled
ParamValueAt(timeline, t) ==
  LET k  == Cardinality({ i \in DOMAIN timeline : timeline[i].time <= t })
      T0 == IF k = 0 THEN 0 ELSE timeline[k].time
      V0 == IF k = 0 THEN EnvDen ELSE timeline[k].value
  IN  IF k < Len(timeline) /\ timeline[k + 1].kind = "ramp"
      THEN V0 + Trunc((timeline[k + 1].value - V0) * (t - T0),
                      timeline[k + 1].time - T0)
      ELSE V0

\* the body of score.notes.forEach for one note: [threw, node], the node the
\* oscillator with its gain [type, frequency, gain (the timeline), start, stop]
ScheduleNote(note) ==
  LET env == ApplyCalls(<<>>, EnvelopeCalls(note), 1)
  IN  [threw |-> \/ env.threw
                 \/ NegativeTimeThrows(note.startTime)
                 \/ NegativeTimeThrows(note.startTime + note.duration),
       node  |-> [type      |-> note.type,
                  frequency |-> note.freq,
                  gain      |-> env.timeline,
                  start     |-> note.startTime,
                  stop      |-> note.startTime + note.duration]]

\* the oscillator of a node sounds from start up to, not including, stop
Sounding(node, t) == node.start <= t /\ t < node.stop

\* what the nodes put into the destination at time t: for every node that
\* sounds with a gain other than 0, its oscillator times that gain; the empty
\* set is a sample of 0
SynthOut(nodes, t) ==
  { [node |-> i, gain |-> ParamValueAt(nodes[i].gain, t)] :
    i \in { j \in DOMAIN nodes : /\ Sounding(nodes[j], t)
                                 /\ ParamValueAt(nodes[j].gain, t) # 0 } }

(***************************************************************************)
(* State.                                                                  *)
(***************************************************************************)
VARIABLES
  encPc,       \* SpecEncode: "ready", "encoded", "decoded"
  encBuffer,   \* the AudioBuffer handed to audioBufferToWav
  encBlob,     \* the bytes of the Blob it returned
  encDecoded,  \* the buffer decoded back from encBlob
  \* one call of renderEnhancedAudio(speechUrl, musicUrl, speed, musicVolume)
  pc,          \* where the call stands
  tempCtx,     \* [state, sampleRate, buffersCreated]: the decoding AudioContext
  musicUrl,    \* "null" or "blob:music"
  speed,       \* speed / SpeedDen
  musicVolume, \* musicVolume / GainDen
  speechBuffer,
  musicBuffer,
  stretchedSpeechBuffer,
  stretchCalls,   \* the calls of timeStretch so far: [buffer (id), speed]
  graph,          \* the OfflineAudioContext with its nodes
  renderedBuffer, \* [numberOfChannels, length, sampleRate, graph]
  result,         \* the Blob returned: [header, size]
  failure,        \* "none", or the step whose exception is on its way out
  \* one call of synthesizeMusic(score)
  synPc,          \* where the call stands
  score,          \* its argument
  offlineCtx,     \* [numberOfChannels, length, sampleRate] of line 109
  synNodes,       \* the nodes connected so far, one per note
  synRendered,    \* the rendered buffer: [numberOfChannels, length, sampleRate, nodes]
  synBlob,        \* the Blob returned: [header, size]
  synFailure,     \* "none" or the exception thrown
  \* the raw-PCM path of generateSpeech
  pcmPc,          \* where it stands
  base64Audio,    \* the base64 string, as its characters
  pcmData,        \* the bytes base64ToUint8Array returned
  wavBlob,        \* the bytes of the Blob pcmToWav returned
  speechWav,      \* the container behind speechUrl: [header, size]
  \* the App component: its state and its pending calls
  text,              \* "" or a text
  audioUrl,          \* 0 for null, or the number of an object URL
  appMusicUrl,       \* the state musicUrl of App, likewise
  isLoading,
  isGeneratingMusic,
  error,             \* "null" or the message
  speechCall,        \* "none" or "pending": the generateSpeech awaited
  musicCall,         \* "none" or "pending": the generateBackgroundMusic awaited
  urlCount,          \* the object URLs created so far
  revoked,           \* the object URLs revoked
  \* the AudioPlayer component, mounted while audioUrl is not null
  isProcessingDownload,
  downloadCall,      \* "none" or "pending": the renderEnhancedAudio awaited
  orphanDownloads,   \* calls still pending whose player has been unmounted
  alerted,           \* alert() has been called since the last click on download
  timers             \* the object URLs a setTimeout is about to revoke

encVars == <<encPc, encBuffer, encBlob, encDecoded>>
renderVars == <<pc, tempCtx, musicUrl, speed, musicVolume, speechBuffer,
                musicBuffer, stretchedSpeechBuffer, stretchCalls, graph,
                renderedBuffer, result, failure>>
synthVars == <<synPc, score, offlineCtx, synNodes, synRendered, synBlob,
               synFailure>>
pcmVars == <<pcmPc, base64Audio, pcmData, wavBlob>>
playerVars == <<isProcessingDownload, downloadCall, orphanDownloads, alerted,
                timers>>
appVars == <<text, audioUrl, appMusicUrl, isLoading, isGeneratingMusic, error,
             speechCall, musicCall, urlCount, revoked, playerVars>>
otherVars == <<synthVars, pcmVars, speechWav, appVars>>
vars == <<encVars, renderVars, otherVars>>

NoContext == [state |-> "none", sampleRate |-> 0, buffersCreated |-> 0]
NoRendered == [numberOfChannels |-> 0, length |-> 0, sampleRate |-> 0,
               graph |-> NoGraph]
NoBlob == [header |-> <<>>, size |-> 0]

\* the call has not been made
RenderIdle ==
  /\ pc = "idle"
  /\ tempCtx = NoContext
  /\ musicUrl = "null"
  /\ speed = SpeedDen
  /\ musicVolume = 0
  /\ speechBuffer = NoBuffer
  /\ musicBuffer = NoBuffer
  /\ stretchedSpeechBuffer = NoBuffer
  /\ stretchCalls = <<>>
  /\ graph = NoGraph
  /\ renderedBuffer = NoRendered
  /\ result = NoBlob
  /\ failure = "none"

NoScore == [totalDuration |-> 0, notes |-> <<>>]
NoOfflineCtx == [numberOfChannels |-> 0, length |-> 0, sampleRate |-> 0]
NoSynRendered == [numberOfChannels |-> 0, length |-> 0, sampleRate |-> 0,
                  nodes |-> <<>>]

\* synthesizeMusic has not been called
SynthIdle ==
  /\ synPc = "idle"
  /\ score = NoScore
  /\ offlineCtx = NoOfflineCtx
  /\ synNodes = <<>>
  /\ synRendered = NoSynRendered
  /\ synBlob = NoBlob
  /\ synFailure = "none"

\* generateSpeech has no response to convert
PcmIdle ==
  /\ pcmPc = "idle"
  /\ base64Audio = <<>>
  /\ pcmData = <<>>
  /\ wavBlob = <<>>

\* what is behind speechUrl is not known
SpeechUnknown == speechWav = NoBlob

\* App as it is mounted (lines 50-59)
AppMounted ==
  /\ text = ""
  /\ audioUrl = 0
  /\ appMusicUrl = 0
  /\ isLoading = FALSE
  /\ isGeneratingMusic = FALSE
  /\ error = "null"
  /\ speechCall = "none"
  /\ musicCall = "none"
  /\ urlCount = 0
  /\ revoked = {}
  /\ isProcessingDownload = FALSE
  /\ downloadCall = "none"
  /\ orphanDownloads = 0
  /\ alerted = FALSE
  /\ timers = {}

EncodeIdle ==
  /\ encPc = "idle"
  /\ encBuffer = [numberOfChannels |-> 0, length |-> 0, sampleRate |-> 0,
                  data |-> <<>>]
  /\ encBlob = <<>>
  /\ encDecoded = encBuffer

(***************************************************************************)
(* SpecEncode: audioBufferToWav applied to every buffer of a bounded set.  *)
(***************************************************************************)
\* -1.5, -1, -1/24576, 0, 24575/24576, 1, 1.5
EncSamples == {-(SampleDen + SampleDen \div 2), -SampleDen, -1, 0,
               SampleDen - 1, SampleDen, SampleDen + SampleDen \div 2}

\* the speech rate of pcmToWav and the mixer's output rate
EncRates == {24000, 44100}

EncBuffers ==
  UNION { UNION { { [numberOfChannels |-> c, length |-> n, sampleRate |-> r,
                     data |-> d] :
                    r \in EncRates, d \in [1..c -> [1..n -> EncSamples]] } :
                  n \in {m \in 0..EncMaxSamples : m * c <= EncMaxSamples} } :
          c \in {1, 2} }

InitEncode ==
  /\ encPc = "ready"
  /\ encBuffer \in EncBuffers
  /\ encBlob = <<>>
  /\ encDecoded = [numberOfChannels |-> 0, length |-> 0, sampleRate |-> 0,
                   data |-> <<>>]
  /\ RenderIdle
  /\ SynthIdle
  /\ PcmIdle
  /\ SpeechUnknown
  /\ AppMounted

Encode ==
  /\ encPc = "ready"
  /\ encBlob' = audioBufferToWav(encBuffer)
  /\ encPc' = "encoded"
  /\ UNCHANGED <<encBuffer, encDecoded, renderVars, otherVars>>

Decode ==
  /\ encPc = "encoded"
  /\ encDecoded' = decodeRawPcm(encBlob)
  /\ encPc' = "decoded"
  /\ UNCHANGED <<encBuffer, encBlob, renderVars, otherVars>>

NextEncode == Encode \/ Decode

SpecEncode == InitEncode /\ [][NextEncode]_vars

(***************************************************************************)
(* Spec: calls of renderEnhancedAudio, one after the other.                *)
(***************************************************************************)
\* the sample rate of the AudioContext is the output device's
CtxRates == {44100, 48000}

\* 0.5, 1.0, 1.0078125, 1.015625, 2.0, 3.0
Speeds == {SpeedDen \div 2, SpeedDen, SpeedDen + 1, SpeedDen + 2,
           2 * SpeedDen, 3 * SpeedDen}

\* 0 and 0.3, the slider's default
Gains == {0, (3 * GainDen) \div 10}

\* -0.5 and 0.25
PipeSamples == {-(SampleDen \div 2), SampleDen \div 4}

\* the period of a long decoded speech: 0.25, -0.5, 0.125
LongPeriod == <<SampleDen \div 4, -(SampleDen \div 2), SampleDen \div 8>>

\* 15 frames, the shortest buffer of DoubleRoundsBelow, and the lengths around
\* multiples of the window
LongFrames ==
  {15} \cup { k * windowSize + d : k \in 1..MaxWindows, d \in {0, 1} }

\* what decodeAudioData can make of the speech: a mono buffer at the
\* context's rate (pcmToWav writes one channel)
DecodedSpeech(rate) ==
  UNION { { [id |-> "speech", numberOfChannels |-> 1, length |-> n,
             sampleRate |-> rate, data |-> <<d>>, ola |-> FALSE,
             grains |-> <<>>] :
            d \in [1..n -> PipeSamples] } : n \in 1..MaxSpeechFrames }
  \cup
  { [id |-> "speech", numberOfChannels |-> 1, length |-> n, sampleRate |-> rate,
     data |-> <<LongPeriod>>, ola |-> FALSE, grains |-> <<>>] : n \in LongFrames }

\* what decodeAudioData can make of the music: synthesizeMusic renders one
\* channel
DecodedMusic(rate) ==
  UNION { { [id |-> "music", numberOfChannels |-> 1, length |-> n,
             sampleRate |-> rate, data |-> <<d>>, ola |-> FALSE,
             grains |-> <<>>] :
            d \in [1..n -> PipeSamples] } : n \in 1..MaxMusicFrames }

Init ==
  RenderIdle /\ EncodeIdle /\ SynthIdle /\ PcmIdle /\ SpeechUnknown /\ AppMounted

\* line 215: the call creates the temporary context; its arguments are kept
RenderCall ==
  /\ pc \in {"idle", "returned", "thrown"}
  /\ \E rate \in CtxRates, s \in Speeds, v \in Gains, u \in {"null", "blob:music"} :
       /\ tempCtx' = [state |-> "running", sampleRate |-> rate, buffersCreated |-> 0]
       /\ speed' = s
       /\ musicVolume' = v
       /\ musicUrl' = u
  /\ speechBuffer' = NoBuffer
  /\ musicBuffer' = NoBuffer
  /\ stretchedSpeechBuffer' = NoBuffer
  /\ stretchCalls' = <<>>
  /\ graph' = NoGraph
  /\ renderedBuffer' = NoRendered
  /\ result' = NoBlob
  /\ failure' = "none"
  /\ pc' = "fetchSpeech"
  /\ UNCHANGED <<encVars, otherVars>>

\* an exception leaves the try block for the finally block
Fail(step) ==
  /\ failure' = step
  /\ pc' = "finally"

\* line 218: fetchAudioBuffer(speechUrl, tempCtx) resolves
FetchSpeech ==
  /\ pc = "fetchSpeech"
  /\ \E b \in DecodedSpeech(tempCtx.sampleRate) : speechBuffer' = b
  /\ pc' = IF musicUrl # "null" THEN "fetchMusic" ELSE "stretch"
  /\ UNCHANGED <<encVars, otherVars, tempCtx, musicUrl, speed, musicVolume, musicBuffer,
                 stretchedSpeechBuffer, stretchCalls, graph, renderedBuffer,
                 result, failure>>

\* line 218: fetch, arrayBuffer or decodeAudioData rejects
FetchSpeechFails ==
  /\ pc = "fetchSpeech"
  /\ Fail("fetchSpeech")
  /\ UNCHANGED <<encVars, otherVars, tempCtx, musicUrl, speed, musicVolume, speechBuffer,
                 musicBuffer, stretchedSpeechBuffer, stretchCalls, graph,
                 renderedBuffer, result>>

\* line 221: fetchAudioBuffer(musicUrl, tempCtx) resolves
FetchMusic ==
  /\ pc = "fetchMusic"
  /\ \E b \in DecodedMusic(tempCtx.sampleRate) : musicBuffer' = b
  /\ pc' = "stretch"
  /\ UNCHANGED <<encVars, otherVars, tempCtx, musicUrl, speed, musicVolume, speechBuffer,
                 stretchedSpeechBuffer, stretchCalls, graph, renderedBuffer,
                 result, failure>>

\* line 221: it rejects
FetchMusicFails ==
  /\ pc = "fetchMusic"
  /\ Fail("fetchMusic")
  /\ UNCHANGED <<encVars, otherVars, tempCtx, musicUrl, speed, musicVolume, speechBuffer,
                 musicBuffer, stretchedSpeechBuffer, stretchCalls, graph,
                 renderedBuffer, result>>

\* line 226: timeStretch(speechBuffer, speed, tempCtx)
Stretch ==
  /\ pc = "stretch"
  /\ LET r == timeStretch(speechBuffer, speed)
     IN  /\ stretchCalls' = Append(stretchCalls,
                                   [buffer |-> speechBuffer.id, speed |-> speed])
         /\ stretchedSpeechBuffer' = r.buffer
         /\ tempCtx' = [tempCtx EXCEPT !.buffersCreated = @ + r.created]
         /\ IF r.threw THEN Fail("timeStretch")
            ELSE pc' = "mix" /\ failure' = failure
  /\ UNCHANGED <<encVars, otherVars, musicUrl, speed, musicVolume, speechBuffer, musicBuffer,
                 graph, renderedBuffer, result>>

\* lines 228-262: the offline context, its nodes, startRendering()
Mix ==
  /\ pc = "mix"
  /\ LET g == BuildGraph(stretchedSpeechBuffer, musicBuffer, speed, musicVolume)
     IN  IF OfflineContextThrows(g.length)
         THEN Fail("offlineContext") /\ graph' = graph
         ELSE graph' = g /\ pc' = "rendering" /\ failure' = failure
  /\ UNCHANGED <<encVars, otherVars, tempCtx, musicUrl, speed, musicVolume, speechBuffer,
                 musicBuffer, stretchedSpeechBuffer, stretchCalls, renderedBuffer,
                 result>>

\* line 262: startRendering() resolves with the rendered buffer
Rendered ==
  /\ pc = "rendering"
  /\ renderedBuffer' = [numberOfChannels |-> graph.numberOfChannels,
                        length |-> graph.length,
                        sampleRate |-> graph.sampleRate,
                        graph |-> graph]
  /\ pc' = "encode"
  /\ UNCHANGED <<encVars, otherVars, tempCtx, musicUrl, speed, musicVolume, speechBuffer,
                 musicBuffer, stretchedSpeechBuffer, stretchCalls, graph, result,
                 failure>>

\* line 262: startRendering() rejects
RenderingFails ==
  /\ pc = "rendering"
  /\ Fail("rendering")
  /\ UNCHANGED <<encVars, otherVars, tempCtx, musicUrl, speed, musicVolume, speechBuffer,
                 musicBuffer, stretchedSpeechBuffer, stretchCalls, graph,
                 renderedBuffer, result>>

\* line 263: audioBufferToWav(renderedBuffer); the return value waits for the
\* finally block
EncodeWav ==
  /\ pc = "encode"
  /\ result' = [header |-> WavHeader(NewView(44), renderedBuffer.numberOfChannels,
                                     renderedBuffer.sampleRate, renderedBuffer.length),
                size |-> renderedBuffer.length * renderedBuffer.numberOfChannels * 2 + 44]
  /\ pc' = "finally"
  /\ UNCHANGED <<encVars, otherVars, tempCtx, musicUrl, speed, musicVolume, speechBuffer,
                 musicBuffer, stretchedSpeechBuffer, stretchCalls, graph,
                 renderedBuffer, failure>>

\* line 263: new ArrayBuffer(resultLength) throws RangeError
EncodeWavFails ==
  /\ pc = "encode"
  /\ Fail("encode")
  /\ UNCHANGED <<encVars, otherVars, tempCtx, musicUrl, speed, musicVolume, speechBuffer,
                 musicBuffer, stretchedSpeechBuffer, stretchCalls, graph,
                 renderedBuffer, result>>

\* the finally block of the version without try/finally: the context is
\* closed by nobody
FinallyWithoutClose ==
  /\ pc = "finally"
  /\ pc' = IF failure = "none" THEN "returned" ELSE "thrown"
  /\ UNCHANGED <<encVars, otherVars, tempCtx, musicUrl, speed, musicVolume, speechBuffer,
                 musicBuffer, stretchedSpeechBuffer, stretchCalls, graph,
                 renderedBuffer, result, failure>>

\* 'close' in tempCtx: AudioContext and webkitAudioContext both have close()
CloseInTempCtx == TRUE

\* lines 264-269: the finally block; with the context open it awaits close()
Finally ==
  /\ pc = "finally"
  /\ IF tempCtx.state # "closed" /\ CloseInTempCtx
     THEN pc' = "closing"
     ELSE pc' = IF failure = "none" THEN "returned" ELSE "thrown"
  /\ UNCHANGED <<encVars, otherVars, tempCtx, musicUrl, speed, musicVolume, speechBuffer,
                 musicBuffer, stretchedSpeechBuffer, stretchCalls, graph,
                 renderedBuffer, result, failure>>

\* line 267: close() resolves; the call returns the Blob or throws what failed
Closed ==
  /\ pc = "closing"
  /\ tempCtx' = [tempCtx EXCEPT !.state = "closed"]
  /\ pc' = IF failure = "none" THEN "returned" ELSE "thrown"
  /\ UNCHANGED <<encVars, otherVars, musicUrl, speed, musicVolume, speechBuffer, musicBuffer,
                 stretchedSpeechBuffer, stretchCalls, graph, renderedBuffer,
                 result, failure>>

Next ==
  \/ RenderCall
  \/ FetchSpeech
  \/ FetchSpeechFails
  \/ FetchMusic
  \/ FetchMusicFails
  \/ Stretch
  \/ Mix
  \/ Rendered
  \/ RenderingFails
  \/ EncodeWav
  \/ EncodeWavFails
  \/ Finally
  \/ Closed

Spec == Init /\ [][Next]_vars

(***************************************************************************)
(* SpecCall: calls of renderEnhancedAudio on the containers pcmToWav       *)
(* makes, with every kind of argument the signature admits                 *)
(* (speed: number, musicVolume: number).                                   *)
(***************************************************************************)
\* -0.5, 0, 1.0, 2.0
AnySpeeds == {-(SpeedDen \div 2), 0, SpeedDen, 2 * SpeedDen}

\* -0.05, 0.3, 1.5
AnyGains == {-1, (3 * GainDen) \div 10, GainDen + GainDen \div 2}

\* the 16-bit samples of a speech payload: 80, 160 and 48000 (2 s)
PcmSampleCounts == {80, 160, 2 * PcmRate}

\* context.decodeAudioData of a container of pcmToWav: the frames of the data
\* chunk, resampled from the header's rate to the context's
DecodedPcm(wav, rate) ==
  LET numChannels == getUint16(wav.header, 22)
      fileRate    == getUint32(wav.header, 24)
      frames      == getUint32(wav.header, 40) \div (2 * numChannels)
      g           == GCD(rate, fileRate)
  IN  [id |-> "speech", numberOfChannels |-> numChannels,
       length |-> (frames * (rate \div g)) \div (fileRate \div g),
       sampleRate |-> rate, data |-> [c \in 1..numChannels |-> LongPeriod],
       ola |-> FALSE, grains |-> <<>>]

\* line 215, the speech behind speechUrl being a container of pcmToWav
RenderCallAny ==
  /\ pc \in {"idle", "returned", "thrown"}
  /\ \E rate \in CtxRates, s \in AnySpeeds, v \in AnyGains,
        u \in {"null", "blob:music"} :
       /\ tempCtx' = [state |-> "running", sampleRate |-> rate, buffersCreated |-> 0]
       /\ speed' = s
       /\ musicVolume' = v
       /\ musicUrl' = u
  /\ \E samples \in PcmSampleCounts :
       speechWav' = [header |-> PcmWavHeader(NewView(44), 2 * samples),
                     size   |-> 44 + 2 * samples]
  /\ speechBuffer' = NoBuffer
  /\ musicBuffer' = NoBuffer
  /\ stretchedSpeechBuffer' = NoBuffer
  /\ stretchCalls' = <<>>
  /\ graph' = NoGraph
  /\ renderedBuffer' = NoRendered
  /\ result' = NoBlob
  /\ failure' = "none"
  /\ pc' = "fetchSpeech"
  /\ UNCHANGED <<encVars, synthVars, pcmVars, appVars>>

\* line 218: fetchAudioBuffer(speechUrl, tempCtx) resolves with the decoded
\* container
FetchSpeechPcm ==
  /\ pc = "fetchSpeech"
  /\ speechWav # NoBlob
  /\ speechBuffer' = DecodedPcm(speechWav, tempCtx.sampleRate)
  /\ pc' = IF musicUrl # "null" THEN "fetchMusic" ELSE "stretch"
  /\ UNCHANGED <<encVars, otherVars, tempCtx, musicUrl, speed, musicVolume,
                 musicBuffer, stretchedSpeechBuffer, stretchCalls, graph,
                 renderedBuffer, result, failure>>

NextCall ==
  \/ RenderCallAny
  \/ FetchSpeechPcm
  \/ FetchSpeechFails
  \/ FetchMusic
  \/ FetchMusicFails
  \/ Stretch
  \/ Mix
  \/ Rendered
  \/ RenderingFails
  \/ EncodeWav
  \/ EncodeWavFails
  \/ Finally
  \/ Closed

SpecCall == Init /\ [][NextCall]_vars


(***************************************************************************)
(* SpecPcm: lines 314-323 of generateSpeech applied to every base64 string *)
(* of a bounded set.                                                       *)
(***************************************************************************)
Base64Chars == {"A", "Q", "g", "/", "="}

Base64Strings == UNION { [1..n -> Base64Chars] : n \in 0..MaxBase64Chars }

InitPcm ==
  /\ pcmPc = "response"
  /\ base64Audio \in Base64Strings
  /\ pcmData = <<>>
  /\ wavBlob = <<>>
  /\ SpeechUnknown
  /\ AppMounted
  /\ RenderIdle
  /\ EncodeIdle
  /\ SynthIdle

\* lines 316-318: if (!base64Audio) throw new Error("No audio data ...")
NoAudioData ==
  /\ pcmPc = "response"
  /\ base64Audio = <<>>
  /\ pcmPc' = "thrown"
  /\ UNCHANGED <<encVars, renderVars, synthVars, speechWav, appVars, base64Audio, pcmData,
                 wavBlob>>

\* line 320: base64ToUint8Array(base64Audio); atob may throw
Base64Decode ==
  /\ pcmPc = "response"
  /\ base64Audio # <<>>
  /\ IF AtobThrows(base64Audio)
     THEN pcmPc' = "thrown" /\ pcmData' = pcmData
     ELSE pcmPc' = "decoded" /\ pcmData' = base64ToUint8Array(base64Audio)
  /\ UNCHANGED <<encVars, renderVars, synthVars, speechWav, appVars, base64Audio, wavBlob>>

\* lines 321-323: pcmToWav(pcmData), the Blob handed to URL.createObjectURL
WrapPcm ==
  /\ pcmPc = "decoded"
  /\ wavBlob' = pcmToWav(pcmData)
  /\ pcmPc' = "wrapped"
  /\ UNCHANGED <<encVars, renderVars, synthVars, speechWav, appVars, base64Audio, pcmData>>

NextPcm == NoAudioData \/ Base64Decode \/ WrapPcm

SpecPcm == InitPcm /\ [][NextPcm]_vars


(***************************************************************************)
(* SpecSynth: synthesizeMusic applied to every score of a bounded set.     *)
(***************************************************************************)
\* a frequency the specification calls invalid, and concert pitch
NoteFreqs == {0, 440}

\* 0 s and 2 s
NoteStarts == {0, 2 * TimeDen}

\* 0 s (invalid for the specification), 0.5 s, 1.25 s, 1.5 s, 2 s
NoteDurations == {0, TimeDen \div 2, TimeDen + 1, attack + release, 2 * TimeDen}

Notes == [freq : NoteFreqs, startTime : NoteStarts, duration : NoteDurations,
          type : {"sine"}]

\* 2 s (below the floor), 10 s, 10.5 s
TotalDurations == {2 * TimeDen, 10 * TimeDen, 10 * TimeDen + 2}

Scores ==
  UNION { [totalDuration : TotalDurations, notes : [1..n -> Notes]] :
          n \in 0..MaxNotes }

InitSynth ==
  /\ synPc = "ready"
  /\ score \in Scores
  /\ offlineCtx = NoOfflineCtx
  /\ synNodes = <<>>
  /\ synRendered = NoSynRendered
  /\ synBlob = NoBlob
  /\ synFailure = "none"
  /\ RenderIdle
  /\ EncodeIdle
  /\ PcmIdle
  /\ SpeechUnknown
  /\ AppMounted

\* lines 106-109: the offline context of one channel
SynthCall ==
  /\ synPc = "ready"
  /\ IF OfflineContextThrows(SynthLength(score))
     THEN /\ synFailure' = "NotSupportedError"
          /\ synPc' = "thrown"
          /\ offlineCtx' = offlineCtx
     ELSE /\ offlineCtx' = [numberOfChannels |-> 1, length |-> SynthLength(score),
                            sampleRate |-> SynthRate]
          /\ synPc' = "forEach"
          /\ synFailure' = synFailure
  /\ UNCHANGED <<encVars, renderVars, pcmVars, speechWav, appVars, score,
                 synNodes, synRendered, synBlob>>

\* lines 111-132: one turn of score.notes.forEach; an exception of a
\* scheduling call leaves synthesizeMusic
ForEachNote ==
  /\ synPc = "forEach"
  /\ Len(synNodes) < Len(score.notes)
  /\ LET r == ScheduleNote(score.notes[Len(synNodes) + 1])
     IN  IF r.threw
         THEN /\ synFailure' = "RangeError"
              /\ synPc' = "thrown"
              /\ synNodes' = synNodes
         ELSE /\ synNodes' = Append(synNodes, r.node)
              /\ synPc' = synPc
              /\ synFailure' = synFailure
  /\ UNCHANGED <<encVars, renderVars, pcmVars, speechWav, appVars, score,
                 offlineCtx, synRendered, synBlob>>

\* line 134: startRendering() resolves with the buffer of the context's shape
SynthRendered ==
  /\ synPc = "forEach"
  /\ Len(synNodes) = Len(score.notes)
  /\ synRendered' = [numberOfChannels |-> offlineCtx.numberOfChannels,
                     length |-> offlineCtx.length,
                     sampleRate |-> offlineCtx.sampleRate,
                     nodes |-> synNodes]
  /\ synPc' = "rendered"
  /\ UNCHANGED <<encVars, renderVars, pcmVars, speechWav, appVars, score,
                 offlineCtx, synNodes, synBlob, synFailure>>

\* line 135: return audioBufferToWav(renderedBuffer)
SynthEncodeWav ==
  /\ synPc = "rendered"
  /\ synBlob' = [header |-> WavHeader(NewView(44), synRendered.numberOfChannels,
                                      synRendered.sampleRate, synRendered.length),
                 size |-> synRendered.length * synRendered.numberOfChannels * 2 + 44]
  /\ synPc' = "returned"
  /\ UNCHANGED <<encVars, renderVars, pcmVars, speechWav, appVars, score,
                 offlineCtx, synNodes, synRendered, synFailure>>

NextSynth == SynthCall \/ ForEachNote \/ SynthRendered \/ SynthEncodeWav

SpecSynth == InitSynth /\ [][NextSynth]_vars


(***************************************************************************)
(* SpecApp: the App component of src/types.ts.  A handler runs to its      *)
(* await in one step; the awaited call settles in a later step, in which   *)
(* the rest of the handler runs.  A button can be clicked when it is       *)
(* rendered and not disabled.                                              *)
(***************************************************************************)
Texts == {"", "hello"}

\* lines 127, 182: the textarea belongs to the form, shown while !audioUrl
SetText ==
  /\ audioUrl = 0
  /\ \E t \in Texts : text' = t
  /\ UNCHANGED <<encVars, renderVars, synthVars, pcmVars, speechWav, playerVars, audioUrl,
                 appMusicUrl, isLoading, isGeneratingMusic, error, speechCall,
                 musicCall, urlCount, revoked>>

\* the URLs a handler revokes: those its state holds
Revoking == { u \in {audioUrl, appMusicUrl} : u # 0 }

\* lines 61-72, up to the await; the button (lines 192-194) is in the form and
\* disabled by isLoading || !text.trim()
handleGenerate ==
  /\ audioUrl = 0
  /\ ~isLoading
  /\ text # ""
  /\ isLoading' = TRUE
  /\ error' = "null"
  /\ revoked' = revoked \cup Revoking
  /\ audioUrl' = 0
  /\ appMusicUrl' = 0
  /\ speechCall' = "pending"
  /\ UNCHANGED <<encVars, renderVars, synthVars, pcmVars, speechWav, playerVars, text,
                 isGeneratingMusic, musicCall, urlCount>>

\* lines 72-73, 76-77: generateSpeech resolves with a new object URL
SpeechResolves ==
  /\ speechCall = "pending"
  /\ urlCount < MaxUrls
  /\ urlCount' = urlCount + 1
  /\ audioUrl' = urlCount + 1
  /\ isLoading' = FALSE
  /\ speechCall' = "none"
  /\ UNCHANGED <<encVars, renderVars, synthVars, pcmVars, speechWav, playerVars, text,
                 appMusicUrl, isGeneratingMusic, error, musicCall, revoked>>

\* lines 74-77: generateSpeech rejects
SpeechRejects ==
  /\ speechCall = "pending"
  /\ error' = "Failed to generate audio"
  /\ isLoading' = FALSE
  /\ speechCall' = "none"
  /\ UNCHANGED <<encVars, renderVars, synthVars, pcmVars, speechWav, playerVars, text,
                 audioUrl, appMusicUrl, isGeneratingMusic, musicCall, urlCount,
                 revoked>>

\* lines 81-86, up to the await; the button (lines 239-242) is shown with the
\* player while !musicUrl and disabled by isGeneratingMusic
handleGenerateMusic ==
  /\ audioUrl # 0
  /\ appMusicUrl = 0
  /\ ~isGeneratingMusic
  /\ text # ""
  /\ isGeneratingMusic' = TRUE
  /\ musicCall' = "pending"
  /\ UNCHANGED <<encVars, renderVars, synthVars, pcmVars, speechWav, playerVars, text,
                 audioUrl, appMusicUrl, isLoading, error, speechCall, urlCount,
                 revoked>>

\* lines 86-87, 92-93: generateBackgroundMusic resolves with a new object URL
MusicResolves ==
  /\ musicCall = "pending"
  /\ urlCount < MaxUrls
  /\ urlCount' = urlCount + 1
  /\ appMusicUrl' = urlCount + 1
  /\ isGeneratingMusic' = FALSE
  /\ musicCall' = "none"
  /\ UNCHANGED <<encVars, renderVars, synthVars, pcmVars, speechWav, playerVars, text,
                 audioUrl, isLoading, error, speechCall, revoked>>

\* lines 88-93: generateBackgroundMusic rejects
MusicRejects ==
  /\ musicCall = "pending"
  /\ error' = "Failed to generate background music"
  /\ isGeneratingMusic' = FALSE
  /\ musicCall' = "none"
  /\ UNCHANGED <<encVars, renderVars, synthVars, pcmVars, speechWav, playerVars, text,
                 audioUrl, appMusicUrl, isLoading, speechCall, urlCount, revoked>>

\* lines 97-104; the button is in the player, shown while audioUrl.  With
\* audioUrl null the player is unmounted (line 127): its state is gone, and a
\* pending handleFinalDownload goes on without it
handleReset ==
  /\ audioUrl # 0
  /\ revoked' = revoked \cup Revoking
  /\ audioUrl' = 0
  /\ appMusicUrl' = 0
  /\ text' = ""
  /\ error' = "null"
  /\ isProcessingDownload' = FALSE
  /\ downloadCall' = "none"
  /\ orphanDownloads' = orphanDownloads + (IF downloadCall = "pending" THEN 1 ELSE 0)
  /\ UNCHANGED <<encVars, renderVars, synthVars, pcmVars, speechWav, isLoading,
                 isGeneratingMusic, speechCall, musicCall, urlCount, alerted,
                 timers>>

\* the download without its catch and finally blocks: a rejection leaves the
\* handler as it is
DownloadRejectsUnhandled ==
  /\ downloadCall = "pending"
  /\ downloadCall' = "none"
  /\ UNCHANGED <<encVars, renderVars, synthVars, pcmVars, speechWav, text,
                 audioUrl, appMusicUrl, isLoading, isGeneratingMusic, error,
                 speechCall, musicCall, urlCount, revoked,
                 isProcessingDownload, orphanDownloads, alerted, timers>>

\* part_001 lines 91-97, up to the await; the button (lines 216-218) is in
\* the player and disabled by isProcessingDownload
handleFinalDownload ==
  /\ audioUrl # 0
  /\ ~isProcessingDownload
  /\ isProcessingDownload' = TRUE
  /\ downloadCall' = "pending"
  /\ alerted' = FALSE
  /\ UNCHANGED <<encVars, renderVars, synthVars, pcmVars, speechWav, text,
                 audioUrl, appMusicUrl, isLoading, isGeneratingMusic, error,
                 speechCall, musicCall, urlCount, revoked, orphanDownloads,
                 timers>>

\* part_001 lines 97-108, 112-114: renderEnhancedAudio resolves; the Blob gets
\* an object URL, the link is clicked and the URL is left to a timer
DownloadResolves ==
  /\ downloadCall = "pending"
  /\ urlCount < MaxUrls
  /\ urlCount' = urlCount + 1
  /\ timers' = timers \cup {urlCount + 1}
  /\ isProcessingDownload' = FALSE
  /\ downloadCall' = "none"
  /\ UNCHANGED <<encVars, renderVars, synthVars, pcmVars, speechWav, text,
                 audioUrl, appMusicUrl, isLoading, isGeneratingMusic, error,
                 speechCall, musicCall, revoked, orphanDownloads, alerted>>

\* part_001 lines 109-114: renderEnhancedAudio rejects
DownloadRejects ==
  /\ downloadCall = "pending"
  /\ alerted' = TRUE
  /\ isProcessingDownload' = FALSE
  /\ downloadCall' = "none"
  /\ UNCHANGED <<encVars, renderVars, synthVars, pcmVars, speechWav, text,
                 audioUrl, appMusicUrl, isLoading, isGeneratingMusic, error,
                 speechCall, musicCall, urlCount, revoked, orphanDownloads,
                 timers>>

\* the same two for a call whose player is unmounted: setIsProcessingDownload
\* of an unmounted component changes nothing
OrphanDownloadResolves ==
  /\ orphanDownloads > 0
  /\ urlCount < MaxUrls
  /\ orphanDownloads' = orphanDownloads - 1
  /\ urlCount' = urlCount + 1
  /\ timers' = timers \cup {urlCount + 1}
  /\ UNCHANGED <<encVars, renderVars, synthVars, pcmVars, speechWav, text,
                 audioUrl, appMusicUrl, isLoading, isGeneratingMusic, error,
                 speechCall, musicCall, revoked, isProcessingDownload,
                 downloadCall, alerted>>

OrphanDownloadRejects ==
  /\ orphanDownloads > 0
  /\ orphanDownloads' = orphanDownloads - 1
  /\ alerted' = TRUE
  /\ UNCHANGED <<encVars, renderVars, synthVars, pcmVars, speechWav, text,
                 audioUrl, appMusicUrl, isLoading, isGeneratingMusic, error,
                 speechCall, musicCall, urlCount, revoked, isProcessingDownload,
                 downloadCall, timers>>

\* part_001 line 108: setTimeout(() => URL.revokeObjectURL(finalUrl), 1000)
RevokeFinalUrl ==
  /\ \E u \in timers :
       /\ timers' = timers \ {u}
       /\ revoked' = revoked \cup {u}
  /\ UNCHANGED <<encVars, renderVars, synthVars, pcmVars, speechWav, text,
                 audioUrl, appMusicUrl, isLoading, isGeneratingMusic, error,
                 speechCall, musicCall, urlCount, isProcessingDownload,
                 downloadCall, orphanDownloads, alerted>>


NextApp ==
  \/ SetText
  \/ handleGenerate
  \/ SpeechResolves
  \/ SpeechRejects
  \/ handleGenerateMusic
  \/ MusicResolves
  \/ MusicRejects
  \/ handleReset
  \/ handleFinalDownload
  \/ DownloadResolves
  \/ DownloadRejects
  \/ OrphanDownloadResolves
  \/ OrphanDownloadRejects
  \/ RevokeFinalUrl

SpecApp == Init /\ [][NextApp]_vars


(***************************************************************************)
(* Properties of audioBufferToWav (SpecEncode).                            *)
(***************************************************************************)
Encoded == encPc \in {"encoded", "decoded"}

\* the bytes of the blob at byte offsets from .. from + n - 1
BytesAt(bytes, from, n) == [j \in 1..n |-> bytes[from + j]]

\* byte offset of frame i, channel c (both from 0) in a container of C channels
SampleOffset(i, c, C) == 44 + 2 * (i * C + c)

\* C2: for a buffer of C >= 1 channels, rate R and N >= 0 frames the blob has
\* exactly 44 + N*C*2 bytes; its header reads 'RIFF', 36 + N*C*2, 'WAVE',
\* 'fmt ', 16, format tag 1, C, R, byte rate R*C*2, block alignment C*2, bit
\* depth 16, 'data', N*C*2; the sample of frame i, channel c is the 16-bit
\* little-endian value at byte offset 44 + 2*(i*C + c); N = 0 gives the 44
\* header bytes alone.
C2_WavLayout ==
  Encoded =>
    LET C == encBuffer.numberOfChannels
        N == encBuffer.length
        R == encBuffer.sampleRate
    IN  /\ Len(encBlob) = 44 + N * C * 2
        /\ BytesAt(encBlob, 0, 4) = <<82, 73, 70, 70>>
        /\ getUint32(encBlob, 4) = 36 + N * C * 2
        /\ BytesAt(encBlob, 8, 4) = <<87, 65, 86, 69>>
        /\ BytesAt(encBlob, 12, 4) = <<102, 109, 116, 32>>
        /\ getUint32(encBlob, 16) = 16
        /\ getUint16(encBlob, 20) = 1
        /\ getUint16(encBlob, 22) = C
        /\ getUint32(encBlob, 24) = R
        /\ getUint32(encBlob, 28) = R * C * 2
        /\ getUint16(encBlob, 32) = C * 2
        /\ getUint16(encBlob, 34) = 16
        /\ BytesAt(encBlob, 36, 4) = <<100, 97, 116, 97>>
        /\ getUint32(encBlob, 40) = N * C * 2
        /\ \A i \in 0..(N - 1) : \A c \in 0..(C - 1) :
              getInt16(encBlob, SampleOffset(i, c, C))
                = ScaledSample(encBuffer.data[c + 1][i + 1])
        /\ (N = 0 => Len(encBlob) = 44)

\* C2 witness: a stereo buffer of two frames with a non-zero sample has been
\* encoded into 52 bytes
C2_Witness ==
  /\ encPc = "encoded"
  /\ encBuffer.numberOfChannels = 2
  /\ encBuffer.length = 2
  /\ encBuffer.data[2][2] = SampleDen
  /\ Len(encBlob) = 52

\* the value the claim C3 prescribes for the sample k / SampleDen
C3_Prescribed(k) ==
  IF k >= SampleDen THEN 32767
  ELSE IF k <= -SampleDen THEN -32768
  ELSE IF k >= 0 THEN (k * 32767) \div SampleDen
  ELSE -(((-k) * 32768) \div SampleDen)

\* C3: every stored 16-bit value is trunc(c * 32767) for c >= 0 and
\* trunc(c * 32768) for c < 0, c the sample clamped to [-1, 1], truncation
\* toward zero; it lies in [-32768, 32767] and a sample outside [-1, 1]
\* saturates to 32767 or -32768.
C3_SampleScaling ==
  Encoded =>
    LET C == encBuffer.numberOfChannels
    IN  \A i \in 0..(encBuffer.length - 1) : \A c \in 0..(C - 1) :
          LET k == encBuffer.data[c + 1][i + 1]
              v == getInt16(encBlob, SampleOffset(i, c, C))
          IN  /\ v = C3_Prescribed(k)
              /\ v \in -32768..32767
              /\ (k > SampleDen => v = 32767)
              /\ (k < -SampleDen => v = -32768)

\* C3 witness: 1.5, -1.5 and -1/24576, whose product -1.33 is truncated to -1,
\* have been encoded
C3_Witness ==
  /\ encPc = "encoded"
  /\ encBuffer.numberOfChannels = 1
  /\ encBuffer.length = 3
  /\ encBuffer.data[1] = <<SampleDen + SampleDen \div 2,
                            -(SampleDen + SampleDen \div 2), -1>>
  /\ getInt16(encBlob, 44) = 32767
  /\ getInt16(encBlob, 46) = -32768
  /\ getInt16(encBlob, 48) = -1

\* |a|
Abs(a) == IF a < 0 THEN -a ELSE a

\* the samples of the encoded buffer that lie in [-1, 1], as <<channel, frame>>
InRangeSamples ==
  { p \in (1..encBuffer.numberOfChannels) \X (1..encBuffer.length) :
      Abs(encBuffer.data[p[1]][p[2]]) <= SampleDen }

\* C4 as claimed: decoding gives the channel count and frame count of the
\* encoded buffer and every sample in [-1, 1] back within 1/32768
\* (3 / DecodeDen).
C4_RoundTripClaimed ==
  encPc = "decoded" =>
    /\ encDecoded.numberOfChannels = encBuffer.numberOfChannels
    /\ encDecoded.length = encBuffer.length
    /\ \A p \in InRangeSamples :
          Abs(encDecoded.data[p[1]][p[2]] - 4 * encBuffer.data[p[1]][p[2]]) <= 3

\* C4 amended: decoding gives the channel count and frame count of the encoded
\* buffer; a sample x in [-1, 0] comes back within 1/32768 of x and a sample
\* x in (0, 1] within 2/32768 of x, and never larger in magnitude than x.
C4_RoundTrip ==
  encPc = "decoded" =>
    /\ encDecoded.numberOfChannels = encBuffer.numberOfChannels
    /\ encDecoded.length = encBuffer.length
    /\ \A p \in InRangeSamples :
          LET x == 4 * encBuffer.data[p[1]][p[2]]
              d == encDecoded.data[p[1]][p[2]]
          IN  /\ (x <= 0 => Abs(d - x) <= 3)
              /\ (x > 0 => Abs(d - x) <= 6)
              /\ Abs(d) <= Abs(x)

\* C4 witness: the sample 24575/24576 has been encoded and decoded, and came
\* back more than 1/32768 below itself
C4_Witness ==
  /\ encPc = "decoded"
  /\ encBuffer.numberOfChannels = 1
  /\ encBuffer.length = 1
  /\ encBuffer.data[1][1] = SampleDen - 1
  /\ 4 * encBuffer.data[1][1] - encDecoded.data[1][1] > 3

(***************************************************************************)
(* Properties of renderEnhancedAudio and timeStretch (Spec).               *)
(***************************************************************************)
\* the frames of a buffer of len frames the frame-wise properties look at:
\* the first and last eight and the frames around every grain boundary (all
\* frames of a buffer of at most 16)
CheckedFrames(len) ==
  { n \in (0..7) \cup ((len - 8)..(len - 1))
          \cup { k * overlap + d : k \in 0..(len \div overlap), d \in {-1, 0, 1} } :
      0 <= n /\ n < len }

\* the call is over
Settled == pc \in {"returned", "thrown"}

\* C1: whichever step fails or succeeds, the temporary AudioContext created at
\* the start of the call is closed when the call returns or throws; it exists
\* from the start of the call on.
C1_ContextClosed ==
  /\ (Settled => tempCtx.state = "closed")
  /\ (pc # "idle" => tempCtx.state # "none")

\* C1 witness: the call threw out of timeStretch and the context is closed
C1_Witness ==
  /\ pc = "thrown"
  /\ failure = "timeStretch"
  /\ tempCtx.state = "closed"

\* |speed - 1.0| < 0.01, as the claims state it
NearUnity == 100 * Abs(speed - SpeedDen) < SpeedDen

\* timeStretch has been called in this call
Stretched == stretchCalls # <<>>

\* C5: for |speed - 1.0| < 0.01 timeStretch returns the input buffer itself (the
\* same object, so the same channels, frames and samples) and has no buffer
\* created.
C5_IdentityReturnsInput ==
  (Stretched /\ NearUnity) =>
    /\ failure # "timeStretch"
    /\ stretchedSpeechBuffer = speechBuffer
    /\ stretchedSpeechBuffer.id = "speech"
    /\ tempCtx.buffersCreated = 0

\* C5 witness: a speech of windowSize + 1 frames has gone through timeStretch
\* at speed 1.0078125 and came back as it was
C5_Witness ==
  /\ pc = "mix"
  /\ speed = SpeedDen + 1
  /\ speechBuffer.length = windowSize + 1
  /\ stretchedSpeechBuffer = speechBuffer

\* C6 as claimed: for every input of N frames and every speed > 0 with
\* |speed - 1.0| >= 0.01 timeStretch returns a buffer of exactly
\* floor(N / speed) frames with the channel count and sample rate of the input.
C6_StretchedLengthClaimed ==
  (Stretched /\ ~NearUnity) =>
    /\ failure # "timeStretch"
    /\ stretchedSpeechBuffer.length = (speechBuffer.length * SpeedDen) \div speed
    /\ stretchedSpeechBuffer.numberOfChannels = speechBuffer.numberOfChannels
    /\ stretchedSpeechBuffer.sampleRate = speechBuffer.sampleRate

\* the graph has been built in this call
Built == graph # NoGraph

\* the rendered buffer is there
HasRendered == renderedBuffer # NoRendered

\* C7: only the speech goes through timeStretch, once, at the requested speed;
\* the stretched speech and the music are both played at rate 1.0, the music
\* being the decoded buffer itself, so that its playhead at output frame n is
\* n * sampleRate / 44100 frames into the loop.
C7_SpeedAppliedOnce ==
  Built =>
    /\ stretchCalls = <<[buffer |-> "speech", speed |-> speed]>>
    /\ graph.speechSource.buffer = stretchedSpeechBuffer
    /\ graph.speechSource.playbackRate = SpeedDen
    /\ (musicBuffer = NoBuffer => graph.musicSource = NoSource)
    /\ (musicBuffer # NoBuffer =>
          /\ graph.musicSource.buffer = musicBuffer
          /\ musicBuffer.id = "music"
          /\ ~musicBuffer.ola
          /\ graph.musicSource.playbackRate = SpeedDen
          /\ \A n \in CheckedFrames(graph.length) :
                SourceOut(graph.musicSource, 0, n).index
                  = ((n * musicBuffer.sampleRate) \div OutRate) % musicBuffer.length)

\* C7 witness: a graph with music has been built at speed 2.0 from a speech
\* that timeStretch filled with grains
C7_Witness ==
  /\ Built
  /\ speed = 2 * SpeedDen
  /\ musicBuffer # NoBuffer
  /\ stretchedSpeechBuffer.grains # <<>>

\* the stretched speech's frame n, as it is
SpeechFrame(n) ==
  [index |-> n, frac |-> 0, sample |-> SampleAt(stretchedSpeechBuffer, 0, n)]

\* C8 as claimed: the rendered buffer has 2 channels and as many frames as the
\* stretched speech, for every decoded length, sample rate and speed, and
\* both channels carry the stretched mono speech at unity gain.
C8_OutputShapeClaimed ==
  HasRendered =>
    /\ renderedBuffer.numberOfChannels = 2
    /\ renderedBuffer.length = stretchedSpeechBuffer.length
    /\ \A c \in {0, 1} : \A n \in CheckedFrames(renderedBuffer.length) :
          RenderedSample(renderedBuffer.graph, c, n).speech = SpeechFrame(n)

\* the graph with the music taken out
WithoutMusic(g) == [g EXCEPT !.musicSource = NoSource, !.musicGain = 0]

MusicShorter == HasRendered /\ musicBuffer # NoBuffer
                /\ musicBuffer.length < renderedBuffer.length

SynthHasRendered == synPc \in {"rendered", "returned"}

\* the quarter seconds of the rendered buffer
SynthTicks == 0..((synRendered.length * TimeDen) \div SynthRate)

Scheduled == DOMAIN synNodes

\* the quarter seconds from 0 to two seconds past the end of note i
TicksAround(i) ==
  0..(score.notes[i].startTime + Max(score.notes[i].duration, 0) + 2 * TimeDen)

\* C12: for a note of duration >= 1.5 s the scheduled gain is 0 at startTime,
\* rises linearly to 0.2 at startTime + 0.5, stays there until
\* startTime + duration - 1.0 and falls linearly to 0 at startTime + duration;
\* the note adds nothing at its exact start, at its exact end and outside
\* [startTime, startTime + duration).
C12_Envelope ==
  \A i \in Scheduled :
    LET s    == score.notes[i].startTime
        d    == score.notes[i].duration
        gain == synNodes[i].gain
        at(t) == ParamValueAt(gain, t)
    IN  2 * d >= 3 * TimeDen =>
          /\ gain = << [kind |-> "set",  value |-> 0, time |-> s],
                       [kind |-> "ramp", value |-> EnvDen \div 5,
                        time |-> s + TimeDen \div 2],
                       [kind |-> "ramp", value |-> EnvDen \div 5,
                        time |-> s + d - TimeDen],
                       [kind |-> "ramp", value |-> 0, time |-> s + d] >>
          /\ at(s) = 0
          /\ at(s + 1) = EnvDen \div 10
          /\ \A t \in (s + TimeDen \div 2)..(s + d - TimeDen) : at(t) = EnvDen \div 5
          /\ at(s + d - 3) = (3 * EnvDen) \div 20
          /\ at(s + d - 2) = EnvDen \div 10
          /\ at(s + d - 1) = EnvDen \div 20
          /\ at(s + d) = 0
          /\ \A t \in TicksAround(i) :
                /\ Sounding(synNodes[i], t) <=> (s <= t /\ t < s + d)
                /\ (t <= s \/ t >= s + d) =>
                      \A o \in SynthOut(synNodes, t) : o.node # i
                /\ (s < t /\ t < s + d) =>
                      [node |-> i, gain |-> at(t)] \in SynthOut(synNodes, t)

\* C12 witness: a note of 2 s starting at 2 s has been rendered; halfway up
\* its attack the gain is 0.1 and in its sustain the note sounds at 0.2
C12_Witness ==
  /\ synPc = "rendered"
  /\ Len(score.notes) = 1
  /\ score.notes[1].startTime = 2 * TimeDen
  /\ score.notes[1].duration = 2 * TimeDen
  /\ ParamValueAt(synNodes[1].gain, 2 * TimeDen + 1) = EnvDen \div 10
  /\ [node |-> 1, gain |-> EnvDen \div 5] \in SynthOut(synRendered.nodes, 3 * TimeDen)


(***************************************************************************)
(* Properties of the arguments (SpecCall, SpecSynth).                      *)
(***************************************************************************)
\* speed <= 0 or a music gain outside [0, 1]
InvalidArguments == speed <= 0 \/ musicVolume < 0 \/ musicVolume > GainDen

\* a note whose frequency or duration is not positive
InvalidScore ==
  \E i \in DOMAIN score.notes :
    score.notes[i].freq <= 0 \/ score.notes[i].duration <= 0

\* C13 as claimed: a call of renderEnhancedAudio with speed <= 0 or a music
\* gain outside [0, 1] fails with InvalidParameter before a context or a
\* buffer is allocated and never returns a Blob; so does a call of
\* synthesizeMusic with a note of non-positive frequency or duration.
C13_InvalidRejectedClaimed ==
  /\ (pc # "idle" /\ InvalidArguments) =>
        /\ tempCtx = NoContext
        /\ speechBuffer = NoBuffer
        /\ musicBuffer = NoBuffer
        /\ stretchedSpeechBuffer = NoBuffer
        /\ graph = NoGraph
        /\ pc = "thrown"
        /\ failure = "InvalidParameter"
  /\ (synPc \notin {"idle", "ready"} /\ InvalidScore) =>
        /\ offlineCtx = NoOfflineCtx
        /\ synPc = "thrown"
        /\ synFailure = "InvalidParameter"


(***************************************************************************)
(* Properties of the raw-PCM path (SpecPcm).                               *)
(***************************************************************************)
\* C14 as claimed: the raw-PCM path never returns a container for a payload
\* of odd byte length; such a payload is rejected.
C14_OddRejectedClaimed ==
  pcmPc = "wrapped" => Len(pcmData) % 2 = 0


(***************************************************************************)
(* End to end (SpecCall).                                                  *)
(***************************************************************************)
\* the speech is a container of 48000 samples
TwoSecondSpeech == speechWav.size = 44 + 2 * 48000

\* C15: for a raw mono PCM speech of 48000 samples at 24000 Hz, no music,
\* speed 1.0 and gain 0.3, the Blob returned declares 2 channels, 44100 Hz and
\* 16 bits per sample and has a data section of 2 * 2 * 88200 = 352800 bytes.
C15_EndToEnd ==
  (/\ result # NoBlob
   /\ TwoSecondSpeech
   /\ musicUrl = "null"
   /\ speed = SpeedDen
   /\ 10 * musicVolume = 3 * GainDen) =>
    /\ getUint16(speechWav.header, 22) = 1
    /\ getUint32(speechWav.header, 24) = 24000
    /\ getUint16(result.header, 22) = 2
    /\ getUint32(result.header, 24) = 44100
    /\ getUint16(result.header, 34) = 16
    /\ getUint32(result.header, 40) = 352800
    /\ result.size = 44 + 352800
    /\ renderedBuffer.length = 88200

\* C15 witness: the call on the 2 s speech, decoded by a context of 48000 Hz
\* into 96000 frames, has returned a Blob of 352844 bytes
C15_Witness ==
  /\ pc = "returned"
  /\ TwoSecondSpeech
  /\ musicUrl = "null"
  /\ speed = SpeedDen
  /\ 10 * musicVolume = 3 * GainDen
  /\ tempCtx.sampleRate = 48000
  /\ speechBuffer.length = 96000
  /\ result.size = 352844


(***************************************************************************)
(* Properties of the grain loop of timeStretch (Spec).                     *)
(***************************************************************************)
\* timeStretch went through the overlap-add and returned
OverlapAdded == Stretched /\ ~NearUnity /\ speed > 0 /\ stretchedSpeechBuffer.ola

\* the grains <<outPos, inPos>> of the claim C16 from outPos on: one at every
\* step of W / 2, inPos = floor(outPos * speed), up to, not including, the
\* first step where inPos + W exceeds the input length N
RECURSIVE ClaimedGrains(_, _)
ClaimedGrains(outPos, N) ==
  LET inPos == (outPos * speed) \div SpeedDen
  IN  IF inPos + 4096 > N THEN <<>>
      ELSE <<<<outPos, inPos>>>> \o ClaimedGrains(outPos + 2048, N)

\* C16 as claimed: for speed outside the identity tolerance timeStretch adds a
\* grain of 4096 samples at every output position 0, 2048, 4096, ... read from
\* floor(outPos * speed), and stops only at the first step where inPos + 4096
\* exceeds the input length; a step where inPos + 4096 equals the input length
\* has its grain added.
C16_GrainsClaimed ==
  OverlapAdded =>
    stretchedSpeechBuffer.grains = ClaimedGrains(0, speechBuffer.length)


(***************************************************************************)
(* Properties of the envelope of a short note (SpecSynth).                 *)
(***************************************************************************)
\* C17 as claimed: for a note of positive frequency and of a positive
\* duration < 1.5 s the envelope is clamped: its
\* breakpoints are in non-decreasing time order inside
\* [startTime, startTime + duration], from 0 at startTime to 0 at
\* startTime + duration, so that attack and release together do not exceed the
\* duration; it is non-negative and continuous (no two breakpoints at one
\* time with different values).
C17_ShortEnvelopeClaimed ==
  \A i \in Scheduled :
    LET s    == score.notes[i].startTime
        d    == score.notes[i].duration
        gain == synNodes[i].gain
    IN  (score.notes[i].freq > 0 /\ 0 < d /\ 2 * d < 3 * TimeDen) =>
          /\ gain[1] = [kind |-> "set", value |-> 0, time |-> s]
          /\ gain[Len(gain)] = [kind |-> "ramp", value |-> 0, time |-> s + d]
          /\ \A k \in DOMAIN gain : s <= gain[k].time /\ gain[k].time <= s + d
          /\ \A k \in 2..Len(gain) :
                /\ gain[k - 1].time <= gain[k].time
                /\ gain[k - 1].time = gain[k].time
                     => gain[k - 1].value = gain[k].value
          /\ \A t \in s..(s + d) : ParamValueAt(gain, t) >= 0


\* C18: for every input length N >= 0 and every speed > 0 outside the identity
\* tolerance, every write index outputOffset + i is below the output length
\* floor(N / speed), every read index inputOffset + i is below N, and the loop
\* ends: outputOffset goes up by 2048 per step from 0 and stays below the
\* output length, which bounds the number of steps.  When createBuffer throws
\* no index is taken at all.
C18_IndexSafety ==
  (Stretched /\ ~NearUnity /\ speed > 0) =>
    LET N      == speechBuffer.length
        outLen == (N * SpeedDen) \div speed
        grains == stretchedSpeechBuffer.grains
    IN  /\ failure = "timeStretch" => grains = <<>>
        /\ \A g \in DOMAIN grains :
              /\ grains[g][1] = (g - 1) * 2048
              /\ \A i \in {0, 4095} :
                    /\ 0 <= grains[g][1] + i /\ grains[g][1] + i < outLen
                    /\ 0 <= grains[g][2] + i /\ grains[g][2] + i < N
        /\ Len(grains) <= outLen \div 2048

\* C18 witness: a speech of 8193 frames has been stretched at speed 0.5 by five
\* grains, the last one read from the frames 4096..8191
C18_Witness ==
  /\ OverlapAdded
  /\ speed = SpeedDen \div 2
  /\ speechBuffer.length = 8193
  /\ Len(stretchedSpeechBuffer.grains) = 5
  /\ stretchedSpeechBuffer.grains[5] = <<8192, 4096>>


\* C19 as claimed: when floor(N / speed) <= 4096 or N <= 4096, timeStretch adds
\* no grain and returns a buffer of floor(N / speed) frames, all of them zero,
\* whatever the input holds.
C19_ShortIsSilentClaimed ==
  (/\ Stretched /\ ~NearUnity /\ speed > 0
   /\ \/ (speechBuffer.length * SpeedDen) \div speed <= 4096
      \/ speechBuffer.length <= 4096) =>
    /\ failure # "timeStretch"
    /\ stretchedSpeechBuffer.ola
    /\ stretchedSpeechBuffer.length = (speechBuffer.length * SpeedDen) \div speed
    /\ stretchedSpeechBuffer.grains = <<>>
    /\ \A n \in CheckedFrames(stretchedSpeechBuffer.length) :
          SampleAt(stretchedSpeechBuffer, 0, n) = ZeroSample


(***************************************************************************)
(* Properties of the App component (SpecApp).                              *)
(***************************************************************************)
\* C20 as claimed: under every interleaving of the handlers with the
\* completions of their pending calls, musicUrl is non-null only while
\* audioUrl is non-null.
C20_MusicOnlyWithAudioClaimed ==
  appMusicUrl # 0 => audioUrl # 0


(***************************************************************************)
(* Busy flags of the handlers (SpecApp).                                   *)
(***************************************************************************)

\* a call that settled with no new object URL was rejected
Rejected == urlCount' = urlCount

SpeechSettles == speechCall = "pending" /\ speechCall' = "none"

MusicSettles == musicCall = "pending" /\ musicCall' = "none"

\* the call of the mounted player settles (a reset moves it to the orphans)
DownloadSettles ==
  /\ downloadCall = "pending"
  /\ downloadCall' = "none"
  /\ orphanDownloads' = orphanDownloads

OrphanSettles == orphanDownloads' < orphanDownloads

\* what a settling call leaves behind
FlagsClearedOnSettle ==
  /\ SpeechSettles => ~isLoading' /\ (Rejected => error' # "null")
  /\ MusicSettles => ~isGeneratingMusic' /\ (Rejected => error' # "null")
  /\ DownloadSettles => ~isProcessingDownload' /\ (Rejected => alerted')
  /\ OrphanSettles /\ Rejected => alerted'

\* a flag is set only while its call is pending
NoFlagWithoutCall ==
  /\ isLoading => speechCall = "pending"
  /\ isGeneratingMusic => musicCall = "pending"
  /\ isProcessingDownload => downloadCall = "pending"

\* C21: when the awaited call of handleGenerate, handleGenerateMusic or
\* handleFinalDownload settles, resolved or rejected, isLoading,
\* isGeneratingMusic or isProcessingDownload is false in the next state, and
\* a rejection has set the error message or shown the alert; no state has a
\* flag set without its call pending
C21_BusyFlagsCleared == [][FlagsClearedOnSettle]_vars /\ []NoFlagWithoutCall

\* a player whose download was rejected (alert shown, flag cleared) after the
\* music call was rejected too (message set, flag cleared)
C21_Witness ==
  /\ audioUrl # 0
  /\ alerted
  /\ downloadCall = "none"
  /\ ~isProcessingDownload
  /\ error = "Failed to generate background music"
  /\ musicCall = "none"
  /\ ~isGeneratingMusic
  /\ ~isLoading

====
